---- MODULE Spec2Model ----
(***************************************************************************)
(* Rank standardisation (src/scaled_ranks.h) and the squared-distance      *)
(* strategies of the two benchmark programs (src/basic.cpp,                *)
(* src/fine_tune.cpp), in exact arithmetic.                                *)
(*                                                                         *)
(* Number representation.                                                  *)
(*   - Ranks are half-integers.  The locals mean_rank, zero_rank and       *)
(*     center_rank hold 2*x for the rank x, and sum_squares holds          *)
(*     4*sum_squares.                                                      *)
(*   - A stored real is a record [n, s], the real n / (2*sqrt(s)): a mean  *)
(*     rank x is [n |-> 2*x, s |-> 1], the score                           *)
(*     x * 0.5 / sqrt(sum_squares) is [n |-> 2*x, s |-> 4*sum_squares],    *)
(*     and the literal 0.0 is [n |-> 0, s |-> 1].                          *)
(*   - Sums and differences of scores are "linear" values: a function      *)
(*     from radicands s to integer coefficients c, the real                *)
(*     SUM c / (2*sqrt(s)).                                                *)
(*   - Products of two linear values are "quadratic" values: a function    *)
(*     from radicands d to integer coefficients c, the real                *)
(*     SUM c / (4*sqrt(d)).  Equality of reals is decided on the canonical *)
(*     form (square-free radicands, reduced rational coefficients).        *)
(*   - basic.cpp draws its values directly; there they are integers.       *)
(***************************************************************************)
EXTENDS Integers, Sequences, FiniteSets, TLC

\* Largest vector length explored.
MaxLen == 3

\* Largest num_markers explored for scaled_ranks on its own.
MaxMarkers == 4

\* Raw values a position can take (negative, zero, positive; ties possible).
RawValues == {-2, -1, 0, 1, 2}

\* The value of an out_* variable before any call.
NoCall == [called |-> FALSE]

Range(f) == {f[x] : x \in DOMAIN f}

\* F(x), with x evaluated once however often F uses it.
With(x, F(_)) == CHOOSE out \in {F(y) : y \in {x}} : TRUE

Abs(x) == IF x < 0 THEN -x ELSE x

RECURSIVE Gcd(_, _)
Gcd(a, b) == IF b = 0 THEN Abs(a) ELSE Gcd(b, a % b)

RECURSIVE SumOver(_, _)
\* Sum of f[x] over the finite set S.
SumOver(f, S) ==
    IF S = {} THEN 0
    ELSE LET x == CHOOSE y \in S : TRUE IN f[x] + SumOver(f, S \ {x})

(***************************************************************************)
(* Exact arithmetic on scores.                                             *)
(***************************************************************************)

\* The literal 0.0.
ZeroScore == [n |-> 0, s |-> 1]

\* The result of sqrt of a negative number, and of arithmetic on it.
NaN == [n |-> 0, s |-> -1]

\* A mean rank as a real: mean_rank is passed doubled.
Rank(mean_rank) == IF mean_rank = 0 THEN ZeroScore ELSE [n |-> mean_rank, s |-> 1]

\* Scale with denom = 1 / sqrt(sum_squares).
Scale_Unhalved(x, sum_squares) ==
    IF sum_squares < 0 \/ x.s < 0 THEN NaN
    ELSE IF sum_squares = 0
         THEN IF x.n = 0 THEN NaN
              ELSE [n |-> IF x.n > 0 THEN 1 ELSE -1, s |-> 0]
    ELSE IF x.n = 0 THEN ZeroScore
    ELSE [n |-> 2 * x.n, s |-> x.s * sum_squares]

\* x * denom with denom = 0.5 / sqrt(sum_squares), for a real x (a mean
\* rank, or whatever else the array holds).  A negative sum_squares gives
\* NaN; a zero sum_squares gives denom = infinity, so NaN for x = 0 and an
\* infinity ([n |-> sign, s |-> 0]) otherwise.
Scale(x, sum_squares) ==
    IF sum_squares < 0 \/ x.s < 0 THEN NaN
    ELSE IF sum_squares = 0
         THEN IF x.n = 0 THEN NaN
              ELSE [n |-> IF x.n > 0 THEN 1 ELSE -1, s |-> 0]
    ELSE IF x.n = 0 THEN ZeroScore
    ELSE [n |-> x.n, s |-> x.s * sum_squares]

\* Sign of an integer.
Sgn(x) == IF x > 0 THEN 1 ELSE IF x < 0 THEN -1 ELSE 0

\* Equality of two scores as real numbers: n1/sqrt(s1) = n2/sqrt(s2).
ScoreEq(x, y) ==
    /\ Sgn(x.n) = Sgn(y.n)
    /\ x.n * x.n * y.s = y.n * y.n * x.s

\* x < y as real numbers.
ScoreLess(x, y) ==
    LET l == Sgn(x.n) * x.n * x.n * y.s
        r == Sgn(y.n) * y.n * y.n * x.s
    IN l < r

\* Linear values: radicand -> coefficient, zero coefficients dropped.
LinNorm(f) == [k \in {j \in DOMAIN f : f[j] # 0} |-> f[k]]

LinGet(f, k) == IF k \in DOMAIN f THEN f[k] ELSE 0

Lin(x) == LinNorm([k \in {x.s} |-> x.n])

LinZero == LinNorm([k \in {} |-> 0])

LinAdd(f, g) == LinNorm([k \in DOMAIN f \cup DOMAIN g |-> LinGet(f, k) + LinGet(g, k)])

LinSub(f, g) == LinNorm([k \in DOMAIN f \cup DOMAIN g |-> LinGet(f, k) - LinGet(g, k)])

LinScale(c, f) == LinNorm([k \in DOMAIN f |-> c * f[k]])

\* Quadratic values: radicand d -> coefficient c, the real SUM c / (4*sqrt(d)).
QuadZero == LinZero

QuadAdd(f, g) == LinAdd(f, g)

QuadSub(f, g) == LinSub(f, g)

QuadScale(c, f) == LinScale(c, f)

\* Product of two linear values.
LinMul(f, g) ==
    LET pairs == (DOMAIN f) \X (DOMAIN g)
        rads == {p[1] * p[2] : p \in pairs}
    IN LinNorm([d \in rads |->
            SumOver([p \in pairs |-> f[p[1]] * g[p[2]]],
                    {p \in pairs : p[1] * p[2] = d})])

\* The constant 0.25 = 1 / (4*sqrt(1)).
Quarter == [d \in {1} |-> 1]

\* Largest j >= k with j*j dividing d, or best when there is none.
RECURSIVE LargestSquare(_, _, _)
LargestSquare(d, k, best) ==
    IF k * k > d THEN best
    ELSE LargestSquare(d, k + 1, IF d % (k * k) = 0 THEN k ELSE best)

\* Largest k with k*k dividing d.
SquarePart(d) == LargestSquare(d, 2, 1)

SquareFree(d) == d \div (SquarePart(d) * SquarePart(d))

\* Sum of the fractions c[d] / SquarePart(d) over the radicands in S, reduced.
RECURSIVE FracSum(_, _)
FracSum(f, S) ==
    IF S = {} THEN <<0, 1>>
    ELSE With(CHOOSE y \in S : TRUE, LAMBDA d :
         With(FracSum(f, S \ {d}), LAMBDA rest :
         With(SquarePart(d), LAMBDA k :
         With(f[d] * rest[2] + rest[1] * k, LAMBDA p :
            LET q == k * rest[2]
                g == Gcd(p, q)
            IN <<p \div g, q \div g>>))))

\* Canonical form of a quadratic value: square-free radicand -> reduced
\* fraction; square roots of distinct square-free integers are linearly
\* independent over the rationals, so two quadratic values are equal as
\* reals iff their canonical forms are equal.
Canon(f) ==
    With({SquareFree(d) : d \in DOMAIN f}, LAMBDA frees :
    With([r \in frees |-> FracSum(f, {d \in DOMAIN f : SquareFree(d) = r})],
         LAMBDA coef :
        [r \in {j \in frees : coef[j][1] # 0} |-> coef[r]]))

(***************************************************************************)
(* scaled_ranks (src/scaled_ranks.h).                                      *)
(* A RankedVector is a sequence of <<value, position>>.                    *)
(***************************************************************************)

\* RunEnd without the scan for equal values: every entry is its own run.
RunEnd_NoTies(vec, cIt, copy) == copy

\* do { ++copy; } while (copy != end && copy->first == cIt->first);
\* called with copy = cIt + 1; returns the index one past the tied run.
RECURSIVE RunEnd(_, _, _)
RunEnd(vec, cIt, copy) ==
    IF copy <= Len(vec) /\ vec[copy][1] = vec[cIt][1]
    THEN RunEnd(vec, cIt, copy + 1)
    ELSE copy

\* MeanRank with jump / 2 in place of (jump - 1) / 2.
MeanRank_NoHalf(cur_rank, jump, center_rank) == 2 * cur_rank + jump - center_rank

\* 2 * mean_rank for the run of length jump that starts at rank cur_rank;
\* center_rank is passed doubled (num_markers - 1).
MeanRank(cur_rank, jump, center_rank) == 2 * cur_rank + (jump - 1) - center_rank

\* TiedRanks that lists the entries of a tied run last to first.
RECURSIVE TiedRanks_RunReversed(_, _, _, _)
TiedRanks_RunReversed(vec, center_rank, cIt, st) ==
    IF cIt > Len(vec) THEN st
    ELSE LET copy == RunEnd(vec, cIt, cIt + 1)
             jump == copy - cIt
             mean_rank == MeanRank(st.cur_rank, jump, center_rank)
         IN With([cur_rank |-> st.cur_rank + jump,
                  sum_squares |-> st.sum_squares + mean_rank * mean_rank * jump,
                  ranked |-> st.ranked \o
                      [k \in 1..jump |-> <<vec[copy - k][2], Rank(mean_rank)>>]],
                 LAMBDA next : TiedRanks_RunReversed(vec, center_rank, copy, next))

\* The tied-rank loop over one sorted group, from iterator cIt on.
\* st = [cur_rank, sum_squares, ranked]; ranked is the sequence of
\* <<position, mean_rank>> assigned so far, in assignment order.
RECURSIVE TiedRanks(_, _, _, _)
TiedRanks(vec, center_rank, cIt, st) ==
    IF cIt > Len(vec) THEN st
    ELSE LET copy == RunEnd(vec, cIt, cIt + 1)
             jump == copy - cIt
             mean_rank == MeanRank(st.cur_rank, jump, center_rank)
         IN With([cur_rank |-> st.cur_rank + jump,
                  sum_squares |-> st.sum_squares + mean_rank * mean_rank * jump,
                  ranked |-> st.ranked \o
                      [k \in 1..jump |-> <<vec[cIt + k - 1][2], Rank(mean_rank)>>]],
                 LAMBDA next : TiedRanks(vec, center_rank, copy, next))

NoRanks == [cur_rank |-> 0, sum_squares |-> 0, ranked |-> <<>>]

\* Clear that leaves the list as it is.
Clear_Keep(buffer) == buffer

\* buffer.clear()
Clear(buffer) == SubSeq(buffer, 1, 0)

\* ZeroRun without the advance of cur_rank.
ZeroRun_NoAdvance(num_zero, center_rank, st) ==
    IF num_zero # 0
    THEN LET zero_rank == 2 * st.cur_rank + (num_zero - 1) - center_rank
         IN [st EXCEPT !.sum_squares = st.sum_squares + zero_rank * zero_rank * num_zero]
    ELSE st

\* The zero run of the split form: one tied run of num_zero positions
\* between the negative and the positive group; skipped when num_zero = 0.
ZeroRun(num_zero, center_rank, st) ==
    IF num_zero # 0
    THEN LET zero_rank == MeanRank(st.cur_rank, num_zero, center_rank)
         IN [st EXCEPT !.cur_rank = st.cur_rank + num_zero,
                       !.sum_squares = st.sum_squares + zero_rank * zero_rank * num_zero]
    ELSE st

ZeroRank(num_zero, center_rank, st) ==
    IF num_zero # 0 THEN MeanRank(st.cur_rank, num_zero, center_rank) ELSE 0

\* buffer[cIt->second] = mean_rank, for every assignment in order.  A write
\* outside the array is left out here and reported by OutOfBounds.
RECURSIVE StoreRanks(_, _, _)
StoreRanks(buffer, ranked, k) ==
    IF k > Len(ranked) THEN buffer
    ELSE StoreRanks(
            IF ranked[k][1] \in DOMAIN buffer
            THEN [buffer EXCEPT ![ranked[k][1]] = ranked[k][2]]
            ELSE buffer,
            ranked, k + 1)

OutOfBounds(buffer, ranked) == \E k \in 1..Len(ranked) : ranked[k][1] \notin DOMAIN buffer

\* Deliver without the branch for sum_squares = 0.
RECURSIVE Deliver_NoSpecialCase(_, _, _, _, _, _)
Deliver_NoSpecialCase(num_markers, sum_squares, stores, i, buffer, calls) ==
    IF ~(i < num_markers) THEN [buffer |-> buffer, calls |-> calls]
    ELSE LET val == Scale(buffer[i], sum_squares)
         IN Deliver_NoSpecialCase(num_markers, sum_squares, stores, i + 1,
                    IF stores THEN [buffer EXCEPT ![i] = val] ELSE buffer,
                    Append(calls, <<i, val>>))

\* Deliver that reads the array one position back, where a storing
\* consumer has already written.
RECURSIVE Deliver_ReadsPrevious(_, _, _, _, _, _)
Deliver_ReadsPrevious(num_markers, sum_squares, stores, i, buffer, calls) ==
    IF ~(i < num_markers) THEN [buffer |-> buffer, calls |-> calls]
    ELSE LET val == IF sum_squares = 0 THEN ZeroScore
                    ELSE Scale(buffer[IF i > 0 THEN i - 1 ELSE i], sum_squares)
         IN Deliver_ReadsPrevious(num_markers, sum_squares, stores, i + 1,
                    IF stores THEN [buffer EXCEPT ![i] = val] ELSE buffer,
                    Append(calls, <<i, val>>))

\* The delivery loop of the single-collection form from position i on:
\* process(i, 0.0) when sum_squares = 0, else process(i, buffer[i] * denom).
\* stores = TRUE is a consumer that writes val to buffer[i] (as
\* sparse-dense-interleaved does); calls is the sequence of <<i, val>>.
RECURSIVE Deliver(_, _, _, _, _, _)
Deliver(num_markers, sum_squares, stores, i, buffer, calls) ==
    IF ~(i < num_markers) THEN [buffer |-> buffer, calls |-> calls]
    ELSE LET val == IF sum_squares = 0 THEN ZeroScore
                    ELSE Scale(buffer[i], sum_squares)
         IN Deliver(num_markers, sum_squares, stores, i + 1,
                    IF stores THEN [buffer EXCEPT ![i] = val] ELSE buffer,
                    Append(calls, <<i, val>>))

\* Single-collection form.  Returns the consumer calls in call order, the
\* array afterwards, and the locals at the end of the rank loop.
ScaledRanksSingle(num_markers, collected, buffer, stores) ==
    IF num_markers = 0
    THEN [calls |-> <<>>, buffer |-> buffer, cur_rank |-> 0, sum_squares |-> 0,
          ranked |-> <<>>, ub |-> FALSE]
    ELSE With(TiedRanks(collected, num_markers - 1, 1, NoRanks), LAMBDA st :
         With(Deliver(num_markers, st.sum_squares, stores, 0,
                      StoreRanks(buffer, st.ranked, 1), <<>>), LAMBDA d :
            [calls |-> d.calls, buffer |-> d.buffer, cur_rank |-> st.cur_rank,
             sum_squares |-> st.sum_squares, ranked |-> st.ranked,
             ub |-> OutOfBounds(buffer, st.ranked)]))

\* Split form with callbacks.  events is the sequence of consumer calls:
\* <<"zero", zval>> and <<"process", k, val>> with k the index of the entry
\* of buffer handed to process.  buffer is the output list as the transform
\* itself leaves it (entries <<position, mean_rank>>), before any change a
\* consumer makes through the reference it is handed; ranked is the list at
\* the end of the rank loops.
ScaledRanksSplit(num_markers, negative, positive, buffer) ==
    IF num_markers = 0
    THEN [events |-> <<<<"zero", ZeroScore>>>>, buffer |-> Clear(buffer),
          cur_rank |-> 0, sum_squares |-> 0, zero_rank |-> 0, num_zero |-> 0,
          ranked |-> Clear(buffer)]
    ELSE LET center_rank == num_markers - 1
             num_zero == num_markers - Len(negative) - Len(positive)
         IN With(TiedRanks(negative, center_rank, 1,
                           [NoRanks EXCEPT !.ranked = Clear(buffer)]), LAMBDA neg :
            With(ZeroRank(num_zero, center_rank, neg), LAMBDA zero_rank :
            With(TiedRanks(positive, center_rank, 1,
                           ZeroRun(num_zero, center_rank, neg)), LAMBDA st :
            IF st.sum_squares = 0
            THEN [events |-> <<<<"zero", ZeroScore>>>>, buffer |-> Clear(st.ranked),
                  cur_rank |-> st.cur_rank, sum_squares |-> st.sum_squares,
                  zero_rank |-> zero_rank, num_zero |-> num_zero,
                  ranked |-> st.ranked]
            ELSE [events |-> <<<<"zero", Scale(Rank(zero_rank), st.sum_squares)>>>> \o
                      [k \in 1..Len(st.ranked) |->
                          <<"process", k, Scale(st.ranked[k][2], st.sum_squares)>>],
                  buffer |-> st.ranked,
                  cur_rank |-> st.cur_rank, sum_squares |-> st.sum_squares,
                  zero_rank |-> zero_rank, num_zero |-> num_zero,
                  ranked |-> st.ranked])))

\* The zero score a split-form call reports (the last zero event).
ZeroOf(events) ==
    LET zs == {k \in 1..Len(events) : events[k][1] = "zero"}
    IN events[CHOOSE k \in zs : \A j \in zs : j <= k][2]

\* The process calls of a split-form call, in call order.
ProcessCalls(events) == SelectSeq(events, LAMBDA e : e[1] = "process")

\* The overload that returns the zero score and stores each score in its
\* entry (pair.second = val).
ScaledRanksReturning(num_markers, negative, positive, buffer) ==
    With(ScaledRanksSplit(num_markers, negative, positive, buffer), LAMBDA r :
    With(ProcessCalls(r.events), LAMBDA pc :
       LET hit(k) == {j \in 1..Len(pc) : pc[j][2] = k}
       IN [output |-> ZeroOf(r.events),
           buffer |-> [k \in 1..Len(r.buffer) |->
               IF hit(k) = {} THEN r.buffer[k]
               ELSE <<r.buffer[k][1],
                      pc[CHOOSE j \in hit(k) : \A h \in hit(k) : h <= j][3]>>]]))

\* The finite set S of <<value, position>> in ascending order of value;
\* entries of equal value ascend by position, or descend when desc.
RECURSIVE SortBy(_, _)
SortBy(S, desc) ==
    IF S = {} THEN <<>>
    ELSE LET first(x) == \A y \in S :
                 \/ x[1] < y[1]
                 \/ x[1] = y[1] /\ (IF desc THEN x[2] >= y[2] ELSE x[2] <= y[2])
             e == CHOOSE x \in S : first(x)
         IN <<e>> \o SortBy(S \ {e}, desc)

\* std::sort of a collection of pairs: ascending by first, then by second.
SortPairs(S) == SortBy(S, FALSE)

(***************************************************************************)
(* The distance functions of basic.cpp.  Values are integers; a sparse     *)
(* list is a sequence of <<position, value>>; a dense vector is a function *)
(* on 0..len-1.                                                            *)
(***************************************************************************)

\* std::numeric_limits<double>::infinity(), the mark of an unused slot.
Empty == 1000000

\* std::vector<double>(len): len zeros.
Zeros(len) == [i \in 0..(len - 1) |-> 0]

\* for (const auto& dd : list) mapping[dd.first] = dd.second, from entry k on.
RECURSIVE Scatter(_, _, _)
Scatter(mapping, list, k) ==
    IF k > Len(list) THEN mapping
    ELSE Scatter([mapping EXCEPT ![list[k][1]] = list[k][2]], list, k + 1)

\* for (i = ...; i < len; ++i) { delta = a[i] - b[i]; l2 += delta * delta; }
RECURSIVE B_DenseLoop(_, _, _, _, _)
B_DenseLoop(len, a, b, i, l2) ==
    IF ~(i < len) THEN l2
    ELSE B_DenseLoop(len, a, b, i + 1, l2 + (a[i] - b[i]) * (a[i] - b[i]))

\* dense-dense
B_DenseDense(len, dense_query, dense_ref) ==
    B_DenseLoop(len, dense_query, Scatter(Zeros(len), dense_ref, 1), 0, 0)

\* dense[i], or 0 for a read outside the vector.
ReadAt(dense, i) == IF i \in DOMAIN dense THEN dense[i] ELSE 0

\* The linear merge of a sorted sparse list with a dense vector, from dense
\* index i and sparse index j on (j counts entries already used).  reads is
\* the sequence of <<i, k>>: dense[i] was read, against sparse entry k, or
\* against the fill value when k = 0.
RECURSIVE B_Interleave(_, _, _, _, _, _, _, _)
B_Interleave(len, dense, sparse, zero, i, j, l2, reads) ==
    IF j < Len(sparse)
    THEN LET limit == sparse[j + 1][1]
         IN IF i < limit
            THEN LET delta == ReadAt(dense, i) - zero
                 IN B_Interleave(len, dense, sparse, zero, i + 1, j,
                                 l2 + delta * delta, Append(reads, <<i, 0>>))
            ELSE LET delta == ReadAt(dense, i) - sparse[j + 1][2]
                 IN B_Interleave(len, dense, sparse, zero, i + 1, j + 1,
                                 l2 + delta * delta, Append(reads, <<i, j + 1>>))
    ELSE IF i < len
    THEN LET delta == ReadAt(dense, i) - zero
         IN B_Interleave(len, dense, sparse, zero, i + 1, j,
                         l2 + delta * delta, Append(reads, <<i, 0>>))
    ELSE [l2 |-> l2, reads |-> reads]

\* sparse-dense-interleaved: the reference densified, the query sparse.
B_SparseDenseInterleaved(len, sparse_query, zero_query, dense_ref) ==
    B_Interleave(len, Scatter(Zeros(len), dense_ref, 1), sparse_query, zero_query,
                 0, 0, 0, <<>>)

\* dense-sparse-interleaved without the std::sort of sparse_ref_sd.
B_DenseSparseInterleaved_Unsorted(len, dense_query, sparse_ref_sd, zero_ref) ==
    [sparse_ref_sd |-> sparse_ref_sd] @@
    B_Interleave(len, dense_query, sparse_ref_sd, zero_ref, 0, 0, 0, <<>>)

\* dense-sparse-interleaved: sparse_ref_sd is sorted in place first.  Returns
\* the value, the reads and sparse_ref_sd afterwards.
B_DenseSparseInterleaved(len, dense_query, sparse_ref_sd, zero_ref) ==
    LET sorted == SortPairs(Range(sparse_ref_sd))
    IN [sparse_ref_sd |-> sorted] @@
       B_Interleave(len, dense_query, sorted, zero_ref, 0, 0, 0, <<>>)

\* dense-sparse-densified
B_Densified(len, dense_query, sparse_ref, zero_ref) ==
    B_DenseLoop(len, dense_query,
                Scatter([i \in 0..(len - 1) |-> zero_ref], sparse_ref, 1), 0, 0)

\* for (const auto& ss : sparse_ref) sd_mapping[ss.first] = ss.second - zero_ref;
RECURSIVE ScatterDelta(_, _, _, _)
ScatterDelta(mapping, list, zero, k) ==
    IF k > Len(list) THEN mapping
    ELSE ScatterDelta([mapping EXCEPT ![list[k][1]] = list[k][2] - zero],
                      list, zero, k + 1)

\* for (const auto& ss : sparse_ref) sd_mapping[ss.first] = 0;
RECURSIVE ResetTouched(_, _, _)
ResetTouched(mapping, list, k) ==
    IF k > Len(list) THEN mapping
    ELSE ResetTouched([mapping EXCEPT ![list[k][1]] = 0], list, k + 1)

\* dense-sparse-densified2: the value and sd_mapping afterwards.
B_Densified2(len, dense_query, sparse_ref, zero_ref, sd_mapping) ==
    LET filled == ScatterDelta(sd_mapping, sparse_ref, zero_ref, 1)
    IN [val |-> B_DenseLoop(len, dense_query,
                            [i \in 0..(len - 1) |-> filled[i] + zero_ref], 0, 0),
        sd_mapping |-> ResetTouched(filled, sparse_ref, 1)]

\* The while (1) loop of sparse-sparse-interleaved; i1, i2 count the entries
\* already used.  Entered only when both lists have an entry left.
RECURSIVE B_Merge(_, _, _, _, _, _, _, _)
B_Merge(sq, zero_query, sr, zero_ref, i1, i2, both, l2) ==
    LET idx1 == sq[i1 + 1][1]
        idx2 == sr[i2 + 1][1]
    IN IF idx1 < idx2
       THEN LET delta == sq[i1 + 1][2] - zero_ref
            IN IF i1 + 1 = Len(sq)
               THEN [i1 |-> i1 + 1, i2 |-> i2, both |-> both, l2 |-> l2 + delta * delta]
               ELSE B_Merge(sq, zero_query, sr, zero_ref, i1 + 1, i2, both,
                            l2 + delta * delta)
       ELSE IF idx1 > idx2
       THEN LET delta == sr[i2 + 1][2] - zero_query
            IN IF i2 + 1 = Len(sr)
               THEN [i1 |-> i1, i2 |-> i2 + 1, both |-> both, l2 |-> l2 + delta * delta]
               ELSE B_Merge(sq, zero_query, sr, zero_ref, i1, i2 + 1, both,
                            l2 + delta * delta)
       ELSE LET delta == sq[i1 + 1][2] - sr[i2 + 1][2]
            IN IF i1 + 1 = Len(sq) \/ i2 + 1 = Len(sr)
               THEN [i1 |-> i1 + 1, i2 |-> i2 + 1, both |-> both + 1,
                     l2 |-> l2 + delta * delta]
               ELSE B_Merge(sq, zero_query, sr, zero_ref, i1 + 1, i2 + 1, both + 1,
                            l2 + delta * delta)

\* for (; i < snum; ++i) { delta = list[i].second - zero; l2 += delta * delta; }
RECURSIVE B_Tail(_, _, _, _)
B_Tail(list, zero, i, l2) ==
    IF ~(i < Len(list)) THEN l2
    ELSE B_Tail(list, zero, i + 1,
                l2 + (list[i + 1][2] - zero) * (list[i + 1][2] - zero))

\* The factor of the closed-form term with the matched entries not added
\* back.
Untouched_MatchedTwice(len, snum1, snum2, both) == len - snum1 - snum2

\* The factor of the closed-form term: len - snum1 - (snum2 - both).
Untouched(len, snum1, snum2, both) == len - snum1 - (snum2 - both)

\* sparse-sparse-interleaved: sparse_ref_ss is sorted in place first.
\* Returns the value, the matched count, the factor of the closed-form term
\* and sparse_ref_ss afterwards.
B_SparseSparseInterleaved(len, sparse_query, zero_query, sparse_ref_ss, zero_ref) ==
    LET sr == SortPairs(Range(sparse_ref_ss))
        m == IF 0 < Len(sparse_query) /\ 0 < Len(sr)
             THEN B_Merge(sparse_query, zero_query, sr, zero_ref, 0, 0, 0, 0)
             ELSE [i1 |-> 0, i2 |-> 0, both |-> 0, l2 |-> 0]
        t1 == B_Tail(sparse_query, zero_ref, m.i1, m.l2)
        t2 == B_Tail(sr, zero_query, m.i2, t1)
        delta == zero_query - zero_ref
        factor == Untouched(len, Len(sparse_query), Len(sr), m.both)
    IN [l2 |-> t2 + factor * (delta * delta), both |-> m.both, factor |-> factor,
        sparse_ref_ss |-> sr]

\* The first loop of sparse-sparse-remapped, over the reference entries.
RECURSIVE B_RemapRef(_, _, _, _, _, _)
B_RemapRef(sparse_ref, zero_query, k, ss_mapping, both, l2) ==
    IF k > Len(sparse_ref) THEN [ss_mapping |-> ss_mapping, both |-> both, l2 |-> l2]
    ELSE LET ss == sparse_ref[k]
             target == ss_mapping[ss[1]]
         IN IF target = Empty
            THEN B_RemapRef(sparse_ref, zero_query, k + 1, ss_mapping, both,
                            l2 + (ss[2] - zero_query) * (ss[2] - zero_query))
            ELSE B_RemapRef(sparse_ref, zero_query, k + 1,
                            [ss_mapping EXCEPT ![ss[1]] = Empty], both + 1,
                            l2 + (ss[2] - target) * (ss[2] - target))

\* B_RemapQuery that leaves a matched slot marked as unused.
RECURSIVE B_RemapQuery_NoRestore(_, _, _, _, _)
B_RemapQuery_NoRestore(sparse_query, zero_ref, k, ss_mapping, l2) ==
    IF k > Len(sparse_query) THEN [ss_mapping |-> ss_mapping, l2 |-> l2]
    ELSE LET ss == sparse_query[k]
             target == ss_mapping[ss[1]]
         IN IF target # Empty
            THEN B_RemapQuery_NoRestore(sparse_query, zero_ref, k + 1, ss_mapping,
                              l2 + (target - zero_ref) * (target - zero_ref))
            ELSE B_RemapQuery_NoRestore(sparse_query, zero_ref, k + 1, ss_mapping, l2)

\* The second loop of sparse-sparse-remapped, over the query entries.
RECURSIVE B_RemapQuery(_, _, _, _, _)
B_RemapQuery(sparse_query, zero_ref, k, ss_mapping, l2) ==
    IF k > Len(sparse_query) THEN [ss_mapping |-> ss_mapping, l2 |-> l2]
    ELSE LET ss == sparse_query[k]
             target == ss_mapping[ss[1]]
         IN IF target # Empty
            THEN B_RemapQuery(sparse_query, zero_ref, k + 1, ss_mapping,
                              l2 + (target - zero_ref) * (target - zero_ref))
            ELSE B_RemapQuery(sparse_query, zero_ref, k + 1,
                              [ss_mapping EXCEPT ![ss[1]] = ss[2]], l2)

\* sparse-sparse-remapped: the value, the matched count and ss_mapping
\* afterwards.
B_Remapped(len, sparse_query, zero_query, sparse_ref, zero_ref, ss_mapping) ==
    LET r == B_RemapRef(sparse_ref, zero_query, 1, ss_mapping, 0, 0)
        q == B_RemapQuery(sparse_query, zero_ref, 1, r.ss_mapping, r.l2)
        delta == zero_query - zero_ref
    IN [l2 |-> q.l2 + ((len - Len(sparse_query)) - (Len(sparse_ref) - r.both))
                        * delta * delta,
        both |-> r.both,
        ss_mapping |-> q.ss_mapping]

\* The consistency check of the timing loop: whether
\* std::abs(*result - res) / res > 1e-8.  For integers d and res the quotient
\* exceeds 1e-8 exactly when res >= 0 and |d| > floor(res / 10^8) (0/0 is
\* NaN, d/0 is infinite, a negative quotient never exceeds).
B_Disagrees(result, res) ==
    res >= 0 /\ Abs(result - res) > res \div 100000000

(***************************************************************************)
(* The distance functions of fine_tune.cpp.  Values are scores; a sparse   *)
(* list is a sequence of <<position, score>>; a distance is a quadratic    *)
(* value.                                                                  *)
(***************************************************************************)

\* delta * delta for delta = a - b, a and b scores.
SqDiff(a, b) == With(LinSub(Lin(a), Lin(b)), LAMBDA delta : LinMul(delta, delta))

\* std::vector<double>(len) as an array of scores.
ZeroScores(len) == [i \in 0..(len - 1) |-> ZeroScore]

\* std::sort of a list of <<position, score>>: positions are distinct, so
\* the first member decides every comparison.
RECURSIVE SortSparse(_)
SortSparse(S) ==
    IF S = {} THEN <<>>
    ELSE With(CHOOSE x \in S : \A y \in S : x[1] <= y[1], LAMBDA e :
         With(S \ {e}, LAMBDA rest : <<e>> \o SortSparse(rest)))

\* dense-dense: the consumer of the single-collection form adds
\* (dense_query[i] - val)^2 at every call, from call k on.
RECURSIVE F_DenseCalls(_, _, _, _)
F_DenseCalls(dense_query, calls, k, l2) ==
    IF k > Len(calls) THEN l2
    ELSE With(QuadAdd(l2, SqDiff(dense_query[calls[k][1]], calls[k][2])), LAMBDA sum :
            F_DenseCalls(dense_query, calls, k + 1, sum))

\* dense-dense
F_DenseDense(len, dense_query, full_ref) ==
    With(ScaledRanksSingle(len, full_ref, ZeroScores(len), FALSE), LAMBDA r :
        F_DenseCalls(dense_query, r.calls, 1, QuadZero))

\* dense[i], or 0.0 for a read outside the vector.
ScoreAt(dense, i) == IF i \in DOMAIN dense THEN dense[i] ELSE ZeroScore

\* The linear merge of a sorted sparse list with a dense vector, from dense
\* index i and sparse index j on (j counts entries already used).  reads is
\* the sequence of <<i, k>>: dense[i] was read, against sparse entry k, or
\* against the fill value when k = 0.
RECURSIVE F_Interleave(_, _, _, _, _, _, _, _)
F_Interleave(len, dense, sparse, zero, i, j, l2, reads) ==
    IF j < Len(sparse)
    THEN LET limit == sparse[j + 1][1]
         IN IF i < limit
            THEN With(QuadAdd(l2, SqDiff(ScoreAt(dense, i), zero)), LAMBDA sum :
                    F_Interleave(len, dense, sparse, zero, i + 1, j, sum,
                                 Append(reads, <<i, 0>>)))
            ELSE With(QuadAdd(l2, SqDiff(ScoreAt(dense, i), sparse[j + 1][2])),
                      LAMBDA sum :
                    F_Interleave(len, dense, sparse, zero, i + 1, j + 1, sum,
                                 Append(reads, <<i, j + 1>>)))
    ELSE IF i < len
    THEN With(QuadAdd(l2, SqDiff(ScoreAt(dense, i), zero)), LAMBDA sum :
            F_Interleave(len, dense, sparse, zero, i + 1, j, sum,
                         Append(reads, <<i, 0>>)))
    ELSE [l2 |-> l2, reads |-> reads]

\* sparse-dense-interleaved: the reference is transformed into sd_buffer by
\* a consumer that stores each score in the array the transform reads.
F_SparseDenseInterleaved(len, sparse_query, zero_query, full_ref) ==
    With(ScaledRanksSingle(len, full_ref, ZeroScores(len), TRUE), LAMBDA r :
        F_Interleave(len, r.buffer, sparse_query, zero_query, 0, 0, QuadZero, <<>>))

\* dense-sparse-interleaved without the std::sort of dsi_tmp.
F_DenseSparseInterleaved_Unsorted(len, dense_query, negative_ref, positive_ref) ==
    With(ScaledRanksReturning(len, negative_ref, positive_ref, <<>>), LAMBDA r :
        [dsi_tmp |-> r.buffer] @@
        F_Interleave(len, dense_query, r.buffer, r.output, 0, 0, QuadZero, <<>>))

\* dense-sparse-interleaved: the reference is transformed into dsi_tmp,
\* which is then sorted by position.  Returns the value, the reads and
\* dsi_tmp.
F_DenseSparseInterleaved(len, dense_query, negative_ref, positive_ref) ==
    With(ScaledRanksReturning(len, negative_ref, positive_ref, <<>>), LAMBDA r :
    With(SortSparse(Range(r.buffer)), LAMBDA dsi_tmp :
        [dsi_tmp |-> dsi_tmp] @@
        F_Interleave(len, dense_query, dsi_tmp, r.output, 0, 0, QuadZero, <<>>)))

\* for (i = ...; i < len; ++i) { delta = a[i] - b[i]; val += delta * delta; }
\* with a an array of scores and b an array of linear values.
RECURSIVE F_DenseLoop(_, _, _, _, _)
F_DenseLoop(len, a, b, i, val) ==
    IF ~(i < len) THEN val
    ELSE With(LinSub(Lin(a[i]), b[i]), LAMBDA delta :
         With(QuadAdd(val, LinMul(delta, delta)), LAMBDA sum :
            F_DenseLoop(len, a, b, i + 1, sum)))

\* The consumers of dense-sparse-densified, from event k on: zero fills
\* dsd_buffer with zval, process stores val at the entry's position.
RECURSIVE F_Fill(_, _, _, _)
F_Fill(events, list, k, dsd_buffer) ==
    IF k > Len(events) THEN dsd_buffer
    ELSE LET e == events[k]
         IN With(IF e[1] = "zero"
                 THEN [i \in DOMAIN dsd_buffer |-> Lin(e[2])]
                 ELSE [dsd_buffer EXCEPT ![list[e[2]][1]] = Lin(e[3])],
                 LAMBDA next : F_Fill(events, list, k + 1, next))

\* dense-sparse-densified
F_Densified(len, dense_query, negative_ref, positive_ref) ==
    With(ScaledRanksSplit(len, negative_ref, positive_ref, <<>>), LAMBDA r :
    With(F_Fill(r.events, r.ranked, 1, [i \in 0..(len - 1) |-> LinZero]),
         LAMBDA dsd_buffer :
        F_DenseLoop(len, dense_query, dsd_buffer, 0, QuadZero)))

\* The consumers of dense-sparse-densified2, from event k on: zero sets
\* zero_ref, process stores val - zero_ref at the entry's position.
\* st = [zero_ref, dsd2_mapping].
RECURSIVE F_FillDelta(_, _, _, _)
F_FillDelta(events, list, k, st) ==
    IF k > Len(events) THEN st
    ELSE LET e == events[k]
         IN With(IF e[1] = "zero"
                 THEN [st EXCEPT !.zero_ref = Lin(e[2])]
                 ELSE [st EXCEPT !.dsd2_mapping[list[e[2]][1]] =
                                     LinSub(Lin(e[3]), st.zero_ref)],
                 LAMBDA next : F_FillDelta(events, list, k + 1, next))

\* F_ResetTouched that resets nothing.
F_ResetTouched_Skip(dsd2_mapping, dsd2_tmp, k) == dsd2_mapping

\* for (const auto& ss : dsd2_tmp) dsd2_mapping[ss.first] = 0;
RECURSIVE F_ResetTouched(_, _, _)
F_ResetTouched(dsd2_mapping, dsd2_tmp, k) ==
    IF k > Len(dsd2_tmp) THEN dsd2_mapping
    ELSE F_ResetTouched([dsd2_mapping EXCEPT ![dsd2_tmp[k][1]] = LinZero],
                        dsd2_tmp, k + 1)

\* dense-sparse-densified2: the value and dsd2_mapping afterwards.  zero_ref
\* is unset until the zero consumer runs.
F_Densified2(len, dense_query, negative_ref, positive_ref, dsd2_mapping) ==
    With(ScaledRanksSplit(len, negative_ref, positive_ref, <<>>), LAMBDA r :
    With(F_FillDelta(r.events, r.ranked, 1,
                     [zero_ref |-> LinZero, dsd2_mapping |-> dsd2_mapping]), LAMBDA st :
    With([i \in 0..(len - 1) |-> LinAdd(st.dsd2_mapping[i], st.zero_ref)],
         LAMBDA filled :
        [val |-> F_DenseLoop(len, dense_query, filled, 0, QuadZero),
         dsd2_mapping |-> F_ResetTouched(st.dsd2_mapping, r.buffer, 1)])))

\* The while (1) loop of sparse-sparse-interleaved; i1, i2 count the entries
\* already used.  Entered only when both lists have an entry left.
RECURSIVE F_Merge(_, _, _, _, _, _, _, _)
F_Merge(sq, zero_query, sr, zero_ref, i1, i2, both, l2) ==
    LET idx1 == sq[i1 + 1][1]
        idx2 == sr[i2 + 1][1]
    IN IF idx1 < idx2
       THEN With(QuadAdd(l2, SqDiff(sq[i1 + 1][2], zero_ref)), LAMBDA sum :
               IF i1 + 1 = Len(sq)
               THEN [i1 |-> i1 + 1, i2 |-> i2, both |-> both, l2 |-> sum]
               ELSE F_Merge(sq, zero_query, sr, zero_ref, i1 + 1, i2, both, sum))
       ELSE IF idx1 > idx2
       THEN With(QuadAdd(l2, SqDiff(sr[i2 + 1][2], zero_query)), LAMBDA sum :
               IF i2 + 1 = Len(sr)
               THEN [i1 |-> i1, i2 |-> i2 + 1, both |-> both, l2 |-> sum]
               ELSE F_Merge(sq, zero_query, sr, zero_ref, i1, i2 + 1, both, sum))
       ELSE With(QuadAdd(l2, SqDiff(sq[i1 + 1][2], sr[i2 + 1][2])), LAMBDA sum :
               IF i1 + 1 = Len(sq) \/ i2 + 1 = Len(sr)
               THEN [i1 |-> i1 + 1, i2 |-> i2 + 1, both |-> both + 1, l2 |-> sum]
               ELSE F_Merge(sq, zero_query, sr, zero_ref, i1 + 1, i2 + 1, both + 1, sum))

\* for (; i < snum; ++i) { delta = list[i].second - zero; l2 += delta * delta; }
RECURSIVE F_Tail(_, _, _, _)
F_Tail(list, zero, i, l2) ==
    IF ~(i < Len(list)) THEN l2
    ELSE With(QuadAdd(l2, SqDiff(list[i + 1][2], zero)), LAMBDA sum :
            F_Tail(list, zero, i + 1, sum))

\* sparse-sparse-interleaved: the reference is transformed into ssi_tmp,
\* which is sorted by position and merged with sparse_query.  Returns the
\* value, the matched count and the factor of the closed-form term.
F_SparseSparseInterleaved(len, sparse_query, zero_query, negative_ref, positive_ref) ==
    With(ScaledRanksReturning(len, negative_ref, positive_ref, <<>>), LAMBDA r :
    With(SortSparse(Range(r.buffer)), LAMBDA ssi_tmp :
    With(IF 0 < Len(sparse_query) /\ 0 < Len(ssi_tmp)
         THEN F_Merge(sparse_query, zero_query, ssi_tmp, r.output, 0, 0, 0, QuadZero)
         ELSE [i1 |-> 0, i2 |-> 0, both |-> 0, l2 |-> QuadZero], LAMBDA m :
    With(F_Tail(sparse_query, r.output, m.i1, m.l2), LAMBDA t1 :
    With(F_Tail(ssi_tmp, zero_query, m.i2, t1), LAMBDA t2 :
        LET factor == Untouched(len, Len(sparse_query), Len(ssi_tmp), m.both)
        IN [l2 |-> QuadAdd(t2, QuadScale(factor, SqDiff(zero_query, r.output))),
            both |-> m.both, factor |-> factor])))))

\* X2 that is 0.25 whatever the query.
X2_Always(sparse_query) == Quarter

\* x2 of any-sparse-unstable: sparse_query.empty() ? 0 : 0.25
X2(sparse_query) == IF sparse_query = <<>> THEN QuadZero ELSE Quarter

\* The consumers of any-sparse-unstable, from event k on: zero sets
\* zero_ref, process adds ref * (ref - 2 * target) with
\* ref = val - zero_ref and target = dense_query[pair.first].
\* st = [zero_ref, l2].
RECURSIVE F_Expand(_, _, _, _, _)
F_Expand(dense_query, events, list, k, st) ==
    IF k > Len(events) THEN st
    ELSE LET e == events[k]
         IN With(IF e[1] = "zero"
                 THEN [st EXCEPT !.zero_ref = Lin(e[2])]
                 ELSE With(Lin(dense_query[list[e[2]][1]]), LAMBDA target :
                      With(LinSub(Lin(e[3]), st.zero_ref), LAMBDA ref :
                         [st EXCEPT !.l2 =
                             QuadAdd(st.l2,
                                     LinMul(ref, LinSub(ref, LinScale(2, target))))])),
                 LAMBDA next : F_Expand(dense_query, events, list, k + 1, next))

\* any-sparse-unstable: x2 + l2 - len * zero_ref * zero_ref
F_AnySparseUnstable(len, sparse_query, dense_query, negative_ref, positive_ref) ==
    With(ScaledRanksSplit(len, negative_ref, positive_ref, <<>>), LAMBDA r :
    With(F_Expand(dense_query, r.events, r.ranked, 1,
                  [zero_ref |-> LinZero, l2 |-> QuadZero]), LAMBDA st :
        QuadSub(QuadAdd(X2(sparse_query), st.l2),
                QuadScale(len, LinMul(st.zero_ref, st.zero_ref)))))

\* Sign of the reduced fraction p.
FracSgn(p) == Sgn(p[1]) * Sgn(p[2])

\* Sign of a quadratic value in canonical form with at most one radicand
\* r besides 1: the sign of a + b / sqrt(r) for the fractions a and b.
QuadSgn(c) ==
    LET irr == DOMAIN c \ {1}
        a == IF 1 \in DOMAIN c THEN c[1] ELSE <<0, 1>>
        r == IF irr = {} THEN 1 ELSE CHOOSE d \in irr : TRUE
        b == IF irr = {} THEN <<0, 1>> ELSE c[r]
    IN IF FracSgn(a) = FracSgn(b) \/ FracSgn(b) = 0 THEN FracSgn(a)
       ELSE IF FracSgn(a) = 0 THEN FracSgn(b)
       ELSE \* opposite signs: compare a^2 * r with b^2
            LET l == a[1] * a[1] * b[2] * b[2] * r
                q == b[1] * b[1] * a[2] * a[2]
            IN IF l > q THEN FracSgn(a) ELSE IF l < q THEN FracSgn(b) ELSE 0

\* The consistency check of the timing loop on exact values (in canonical
\* form): std::abs(*result - res) / res > 1e-8 holds when the two differ
\* and res is not negative (a difference over a zero res is infinite, 0/0
\* is NaN, a negative quotient never exceeds the tolerance).  Exact values
\* that differ at all are taken to differ by more than the tolerance.
F_Disagrees(result, res) == result # res /\ QuadSgn(res) >= 0

(***************************************************************************)
(* State.                                                                  *)
(***************************************************************************)

VARIABLES
    \* scaled_ranks on its own: the arguments of a call ...
    num_markers, collected, negative, positive,
    \* ... the caller's array (single-collection form) and output list (split
    \* form), which outlive the call ...
    buffer, tmp,
    \* ... and what the last call of each form did (NoCall before it).
    out_single, out_split, out_returning,
    \* The benchmark programs: which one runs ("" for none), the vector length
    \* and the simulated query ...
    program, len, dense_query, sparse_query, zero_query,
    \* ... the reference of basic.cpp and the lists it sorts in place ...
    dense_ref, sparse_ref, zero_ref, sparse_ref_sd, sparse_ref_ss,
    \* ... the reference of fine_tune.cpp ...
    negative_ref, positive_ref, full_ref,
    \* ... the scratch buffers that are not rewritten in full by each call ...
    ss_mapping, sd_mapping, dsd2_mapping,
    \* ... and the timing loop: the number of setups run, the first value of
    \* the iteration (<<>> when unset), the name and value of the last function
    \* run in the iteration, what it did on the way, and whether the check
    \* has thrown.
    iteration, result, called, res, detail, oops

ranks_vars == <<num_markers, collected, negative, positive, buffer, tmp,
                out_single, out_split, out_returning>>

data_vars == <<program, len, dense_query, sparse_query, zero_query,
               dense_ref, sparse_ref, zero_ref>>

scratch_vars == <<sparse_ref_sd, sparse_ref_ss, ss_mapping, sd_mapping>>

fine_vars == <<negative_ref, positive_ref, full_ref, dsd2_mapping>>

loop_vars == <<iteration, result, called, res, detail, oops>>

vars == <<ranks_vars, data_vars, scratch_vars, fine_vars, loop_vars>>

\* No benchmark program is running.
NoProgram ==
    /\ program = "" /\ len = 0
    /\ dense_query = <<>> /\ sparse_query = <<>> /\ zero_query = 0
    /\ dense_ref = <<>> /\ sparse_ref = <<>> /\ zero_ref = 0
    /\ sparse_ref_sd = <<>> /\ sparse_ref_ss = <<>>
    /\ negative_ref = <<>> /\ positive_ref = <<>> /\ full_ref = <<>>
    /\ ss_mapping = <<>> /\ sd_mapping = <<>> /\ dsd2_mapping = <<>>
    /\ iteration = 0 /\ result = <<>> /\ called = "" /\ res = 0
    /\ detail = <<>> /\ oops = FALSE

\* scaled_ranks is not called on its own.
NoRanksCall ==
    /\ num_markers = 0
    /\ collected = <<>> /\ negative = <<>> /\ positive = <<>>
    /\ buffer = <<>> /\ tmp = <<>>
    /\ out_single = NoCall /\ out_split = NoCall /\ out_returning = NoCall

(***************************************************************************)
(* scaled_ranks on its own: the arguments are drawn at the start, every    *)
(* action is one call.                                                     *)
(***************************************************************************)

Entries(raw) == {<<raw[i], i>> : i \in DOMAIN raw}

\* What the output list of the split form holds before the first call: an
\* entry left by an earlier use.  Later calls find what the call before
\* them left.
StaleList == <<<<0, Rank(1)>>>>

InitRanks ==
    \E n \in 0..MaxMarkers : \E raw \in [0..(n - 1) -> RawValues] : \E desc \in BOOLEAN :
        /\ num_markers = n
        /\ collected = SortBy(Entries(raw), desc)
        /\ negative = SortBy({e \in Entries(raw) : e[1] < 0}, desc)
        /\ positive = SortBy({e \in Entries(raw) : e[1] > 0}, desc)
        /\ buffer = [i \in 0..(n - 1) |-> ZeroScore]
        /\ tmp = StaleList
        /\ out_single = NoCall
        /\ out_split = NoCall
        /\ out_returning = NoCall
        /\ NoProgram

\* No call has ended in a crash.
Running ==
    \A o \in {out_single, out_split, out_returning} :
        o # NoCall => o.outcome = "returned"

\* scaled_ranks(num_markers, collected, buffer, process); stores tells
\* whether process writes its score to buffer[i].  A write outside the
\* array is undefined behaviour: the call may return, with the write lost or
\* landed elsewhere, or crash.
CallSingle(stores) ==
    LET r == ScaledRanksSingle(num_markers, collected, buffer, stores)
    IN /\ Running
       /\ \E outcome \in (IF r.ub THEN {"returned", "crashed"} ELSE {"returned"}) :
            /\ out_single' = [stores |-> stores, outcome |-> outcome] @@
                    (IF outcome = "returned" THEN r ELSE [r EXCEPT !.calls = <<>>])
            /\ buffer' = IF outcome = "returned" THEN r.buffer ELSE buffer
       /\ UNCHANGED <<num_markers, collected, negative, positive, tmp,
                      out_split, out_returning, data_vars, scratch_vars, fine_vars,
                      loop_vars>>

\* scaled_ranks(num_markers, negative, positive, tmp, zero, process) with
\* consumers that leave the entries of tmp alone; stale tells whether tmp
\* held entries when the call was made.
CallSplit ==
    LET r == ScaledRanksSplit(num_markers, negative, positive, tmp)
    IN /\ Running
       /\ out_split' = [stale |-> tmp # <<>>, outcome |-> "returned"] @@ r
       /\ tmp' = r.buffer
       /\ UNCHANGED <<num_markers, collected, negative, positive, buffer,
                      out_single, out_returning, data_vars, scratch_vars, fine_vars,
                      loop_vars>>

\* zero = scaled_ranks(num_markers, negative, positive, tmp)
CallReturning ==
    LET r == ScaledRanksReturning(num_markers, negative, positive, tmp)
    IN /\ Running
       /\ out_returning' = [outcome |-> "returned"] @@ r
       /\ tmp' = r.buffer
       /\ UNCHANGED <<num_markers, collected, negative, positive, buffer,
                      out_single, out_split, data_vars, scratch_vars, fine_vars,
                      loop_vars>>

NextRanks ==
    \/ \E stores \in BOOLEAN : CallSingle(stores)
    \/ CallSplit
    \/ CallReturning

SpecRanks == InitRanks /\ [][NextRanks]_vars

(***************************************************************************)
(* scaled_ranks on arguments that break its contract.                      *)
(***************************************************************************)

\* Largest num_markers, and longest group, of the contract-breaking calls.
MaxBad == 2

RECURSIVE SeqsUpTo(_, _)
\* All sequences over S of length at most n.
SeqsUpTo(S, n) ==
    IF n = 0 THEN {<<>>}
    ELSE LET shorter == SeqsUpTo(S, n - 1)
         IN shorter \cup {Append(q, x) : q \in shorter, x \in S}

Ascending(vec) == \A i, j \in 1..Len(vec) : i < j => vec[i][1] <= vec[j][1]

\* Negative N, a position outside [0, N), more negative plus positive
\* entries than N, or a group that is not sorted.
InvalidArguments ==
    \/ num_markers < 0
    \/ \E e \in Range(negative) \cup Range(positive) \cup Range(collected) :
            e[2] < 0 \/ e[2] >= num_markers
    \/ Len(negative) + Len(positive) > num_markers
    \/ ~Ascending(negative) \/ ~Ascending(positive) \/ ~Ascending(collected)

InitInvalid ==
    /\ num_markers \in -1..MaxBad
    /\ negative \in SeqsUpTo({-2, -1} \X (-1..MaxBad), MaxBad)
    /\ positive \in SeqsUpTo({1} \X (-1..MaxBad), 1)
    /\ collected = negative \o positive
    /\ InvalidArguments
    /\ buffer = [i \in 0..(num_markers - 1) |-> ZeroScore]
    /\ tmp = <<>>
    /\ out_single = NoCall
    /\ out_split = NoCall
    /\ out_returning = NoCall
    /\ NoProgram

SpecInvalid == InitInvalid /\ [][NextRanks]_vars

(***************************************************************************)
(* basic.cpp: main.                                                        *)
(***************************************************************************)

\* The values normdist(rng) yields: for the entries drawn as non-zero, for
\* zero_query and for zero_ref.
BasicValues == {-1, 2}

QueryFills == {1}

RefFills == {1, 3}

Reverse(q) == [k \in 1..Len(q) |-> q[Len(q) + 1 - k]]

\* What std::shuffle does to a list: leaves it as it was, or reverses it.
Shuffle(q, reversed) == IF reversed THEN Reverse(q) ELSE q

\* The entries <<i, v[i]>> of v in ascending order of position.
InOrder(v) == SortPairs({<<i, v[i]>> : i \in DOMAIN v})

\* The state after the declarations of main, before the timing loop, for
\* vectors of length n.
B_Init(n) ==
    /\ program = "basic"
    /\ len = n
    /\ dense_query = Zeros(len)
    /\ sparse_query = <<>> /\ zero_query = 0
    /\ dense_ref = <<>> /\ sparse_ref = <<>> /\ zero_ref = 0
    /\ sparse_ref_sd = <<>> /\ sparse_ref_ss = <<>>
    /\ ss_mapping = Zeros(len)
    /\ sd_mapping = Zeros(len)
    /\ negative_ref = <<>> /\ positive_ref = <<>> /\ full_ref = <<>>
    /\ dsd2_mapping = <<>>
    /\ iteration = 0 /\ result = <<>> /\ called = "" /\ res = 0
    /\ detail = <<>> /\ oops = FALSE
    /\ NoRanksCall

InitBasic == \E n \in 0..MaxLen : B_Init(n)

\* opt.setup with the draws given: the fill values, for each vector the
\* values of the positions drawn as non-zero, and the outcome of the two
\* shuffles.
B_Setup(zq, q, zr, r, reversed) ==
    /\ program = "basic" /\ ~oops
    /\ iteration' = iteration + 1
    /\ sparse_query' = InOrder(q)
    /\ zero_query' = zq
    /\ dense_query' = [i \in 0..(len - 1) |-> IF i \in DOMAIN q THEN q[i] ELSE zq]
    /\ zero_ref' = zr
    /\ sparse_ref' = Shuffle(InOrder(r), reversed)
    /\ dense_ref' =
           Shuffle(InOrder([i \in 0..(len - 1) |-> IF i \in DOMAIN r THEN r[i] ELSE zr]),
                   reversed)
    /\ sparse_ref_sd' = sparse_ref'
    /\ sparse_ref_ss' = sparse_ref'
    /\ ss_mapping' = Scatter([i \in 0..(len - 1) |-> Empty], InOrder(q), 1)
    /\ result' = <<>>
    /\ called' = "" /\ res' = 0 /\ detail' = <<>>
    /\ UNCHANGED <<program, len, sd_mapping, oops, fine_vars, ranks_vars>>

\* The check callback of eztimer::time on the value v of function name.
B_Check(name, v) ==
    /\ called' = name
    /\ res' = v
    /\ IF result = <<>>
       THEN result' = <<v>> /\ oops' = FALSE
       ELSE result' = result /\ oops' = B_Disagrees(result[1], v)

\* The timing loop of basic.cpp is between two functions.
B_Ready == program = "basic" /\ iteration > 0 /\ ~oops

\* One function of funs is run and checked.
B_Run(name, v, d) ==
    /\ B_Ready
    /\ B_Check(name, v)
    /\ detail' = d
    /\ UNCHANGED <<iteration, data_vars, fine_vars, ranks_vars>>

Basic_DenseDense ==
    /\ B_Run("dense-dense", B_DenseDense(len, dense_query, dense_ref), <<>>)
    /\ UNCHANGED scratch_vars

Basic_SparseDenseInterleaved ==
    /\ B_Ready
    /\ \E r \in {B_SparseDenseInterleaved(len, sparse_query, zero_query, dense_ref)} :
       /\ B_Run("sparse-dense-interleaved", r.l2, r.reads)
       /\ UNCHANGED scratch_vars

Basic_DenseSparseInterleaved ==
    /\ B_Ready
    /\ \E r \in {B_DenseSparseInterleaved(len, dense_query, sparse_ref_sd, zero_ref)} :
       /\ B_Run("dense-sparse-interleaved", r.l2, r.reads)
       /\ sparse_ref_sd' = r.sparse_ref_sd
       /\ UNCHANGED <<sparse_ref_ss, ss_mapping, sd_mapping>>

Basic_Densified ==
    /\ B_Run("dense-sparse-densified",
             B_Densified(len, dense_query, sparse_ref, zero_ref), <<>>)
    /\ UNCHANGED scratch_vars

Basic_Densified2 ==
    /\ B_Ready
    /\ \E r \in {B_Densified2(len, dense_query, sparse_ref, zero_ref, sd_mapping)} :
       /\ B_Run("dense-sparse-densified2", r.val, <<>>)
       /\ sd_mapping' = r.sd_mapping
       /\ UNCHANGED <<sparse_ref_sd, sparse_ref_ss, ss_mapping>>

Basic_SparseSparseInterleaved ==
    /\ B_Ready
    /\ \E r \in {B_SparseSparseInterleaved(len, sparse_query, zero_query,
                                       sparse_ref_ss, zero_ref)} :
       /\ B_Run("sparse-sparse-interleaved", r.l2, <<r.both, r.factor>>)
       /\ sparse_ref_ss' = r.sparse_ref_ss
       /\ UNCHANGED <<sparse_ref_sd, ss_mapping, sd_mapping>>

Basic_Remapped ==
    /\ B_Ready
    /\ \E r \in {B_Remapped(len, sparse_query, zero_query, sparse_ref, zero_ref,
                            ss_mapping)} :
       /\ B_Run("sparse-sparse-remapped", r.l2, <<r.both>>)
       /\ ss_mapping' = r.ss_mapping
       /\ UNCHANGED <<sparse_ref_sd, sparse_ref_ss, sd_mapping>>

\* The draws of one setup for a vector of length n: the positions drawn as
\* non-zero, each with one of the values.
SparseDraws(n, values) == UNION {[P -> values] : P \in SUBSET (0..(n - 1))}

Basic_Setup ==
    \E zq \in QueryFills, zr \in RefFills : \E q, r \in SparseDraws(len, BasicValues) :
        \E reversed \in BOOLEAN : B_Setup(zq, q, zr, r, reversed)

Basic_Functions ==
    \/ Basic_DenseDense
    \/ Basic_SparseDenseInterleaved
    \/ Basic_DenseSparseInterleaved
    \/ Basic_Densified
    \/ Basic_Densified2
    \/ Basic_SparseSparseInterleaved
    \/ Basic_Remapped

\* One iteration of the timing loop: setup, then the functions in any order.
NextBasic ==
    \/ iteration = 0 /\ Basic_Setup
    \/ Basic_Functions

SpecBasic == InitBasic /\ [][NextBasic]_vars

(***************************************************************************)
(* fine_tune.cpp: main.  negative_query and positive_query are rebuilt and *)
(* read by setup alone; the output lists and arrays handed to scaled_ranks *)
(* (dd_buffer, sd_buffer, dsd_buffer and the *_tmp lists) are cleared or   *)
(* rewritten in full by every call before they are read.                   *)
(***************************************************************************)

\* What setup draws for a position of the query and of the reference: 0
\* when the position is not drawn, else the value of normdist(rng).
QueryRaw == {-1, 0, 1}

RefRaw == {-1, 0, 1}

\* The state after the declarations of main, before the timing loop, for
\* vectors of length n.
F_Init(n) ==
    /\ program = "fine_tune"
    /\ len = n
    /\ dense_query = ZeroScores(len)
    /\ sparse_query = <<>> /\ zero_query = ZeroScore
    /\ negative_ref = <<>> /\ positive_ref = <<>> /\ full_ref = <<>>
    /\ dsd2_mapping = [i \in 0..(len - 1) |-> LinZero]
    /\ dense_ref = <<>> /\ sparse_ref = <<>> /\ zero_ref = 0
    /\ sparse_ref_sd = <<>> /\ sparse_ref_ss = <<>>
    /\ ss_mapping = <<>> /\ sd_mapping = <<>>
    /\ iteration = 0 /\ result = <<>> /\ called = "" /\ res = <<>>
    /\ detail = <<>> /\ oops = FALSE
    /\ NoRanksCall

InitFine == \E n \in 0..MaxLen : F_Init(n)

\* opt.setup with the draws given: q[i] and r[i] are the values at position
\* i of the query and of the reference.
F_Setup(q, r) ==
    LET negative_query == SortPairs({<<q[i], i>> : i \in {j \in DOMAIN q : q[j] < 0}})
        positive_query == SortPairs({<<q[i], i>> : i \in {j \in DOMAIN q : q[j] > 0}})
        t == ScaledRanksReturning(len, negative_query, positive_query, sparse_query)
    IN /\ program = "fine_tune" /\ ~oops
       /\ iteration' = iteration + 1
       /\ zero_query' = t.output
       /\ sparse_query' = SortSparse(Range(t.buffer))
       /\ dense_query' = Scatter([i \in 0..(len - 1) |-> t.output], sparse_query', 1)
       /\ negative_ref' = SortPairs({<<r[i], i>> : i \in {j \in DOMAIN r : r[j] < 0}})
       /\ positive_ref' = SortPairs({<<r[i], i>> : i \in {j \in DOMAIN r : r[j] > 0}})
       /\ full_ref' = SortPairs({<<r[i], i>> : i \in DOMAIN r})
       /\ result' = <<>>
       /\ called' = "" /\ res' = <<>> /\ detail' = <<>>
       /\ UNCHANGED <<program, len, dsd2_mapping, oops,
                      dense_ref, sparse_ref, zero_ref, scratch_vars, ranks_vars>>

\* The check callback of eztimer::time on the value v of function name.
F_Check(name, v) ==
    /\ called' = name
    /\ res' = v
    /\ IF result = <<>>
       THEN result' = <<v>> /\ oops' = FALSE
       ELSE result' = result /\ oops' = F_Disagrees(result[1], v)

\* The timing loop of fine_tune.cpp is between two functions.
F_Ready == program = "fine_tune" /\ iteration > 0 /\ ~oops

\* One function of funs is run and checked; the value is kept in canonical
\* form.
F_Run(name, v, d) ==
    /\ F_Ready
    /\ \E c \in {Canon(v)} : F_Check(name, c)
    /\ detail' = d
    /\ UNCHANGED <<iteration, program, len, dense_query, sparse_query, zero_query,
                   negative_ref, positive_ref, full_ref,
                   dense_ref, sparse_ref, zero_ref, scratch_vars, ranks_vars>>

Fine_DenseDense ==
    /\ F_Run("dense-dense", F_DenseDense(len, dense_query, full_ref), <<>>)
    /\ UNCHANGED dsd2_mapping

Fine_SparseDenseInterleaved ==
    /\ F_Ready
    /\ \E r \in {F_SparseDenseInterleaved(len, sparse_query, zero_query, full_ref)} :
       /\ F_Run("sparse-dense-interleaved", r.l2, <<r.reads, sparse_query>>)
       /\ UNCHANGED dsd2_mapping

Fine_DenseSparseInterleaved ==
    /\ F_Ready
    /\ \E r \in {F_DenseSparseInterleaved(len, dense_query, negative_ref, positive_ref)} :
       /\ F_Run("dense-sparse-interleaved", r.l2, <<r.reads, r.dsi_tmp>>)
       /\ UNCHANGED dsd2_mapping

Fine_Densified ==
    /\ F_Run("dense-sparse-densified",
             F_Densified(len, dense_query, negative_ref, positive_ref), <<>>)
    /\ UNCHANGED dsd2_mapping

Fine_Densified2 ==
    /\ F_Ready
    /\ \E r \in {F_Densified2(len, dense_query, negative_ref, positive_ref, dsd2_mapping)} :
       /\ F_Run("dense-sparse-densified2", r.val, <<>>)
       /\ dsd2_mapping' = r.dsd2_mapping

Fine_SparseSparseInterleaved ==
    /\ F_Ready
    /\ \E r \in {F_SparseSparseInterleaved(len, sparse_query, zero_query,
                                         negative_ref, positive_ref)} :
       /\ F_Run("sparse-sparse-interleaved", r.l2, <<r.both, r.factor>>)
       /\ UNCHANGED dsd2_mapping

Fine_AnySparseUnstable ==
    /\ F_Run("any-sparse-unstable",
             F_AnySparseUnstable(len, sparse_query, dense_query,
                                 negative_ref, positive_ref), <<>>)
    /\ UNCHANGED dsd2_mapping

Fine_Setup ==
    \E q \in [0..(len - 1) -> QueryRaw], r \in [0..(len - 1) -> RefRaw] : F_Setup(q, r)

Fine_Functions ==
    \/ Fine_DenseDense
    \/ Fine_SparseDenseInterleaved
    \/ Fine_DenseSparseInterleaved
    \/ Fine_Densified
    \/ Fine_Densified2
    \/ Fine_SparseSparseInterleaved
    \/ Fine_AnySparseUnstable

\* One iteration of the timing loop: setup, then the functions in any order.
NextFine ==
    \/ iteration = 0 /\ Fine_Setup
    \/ Fine_Functions

SpecFine == InitFine /\ [][NextFine]_vars

(***************************************************************************)
(* Both programs over several iterations of the timing loop: every setup   *)
(* draws new vectors of the same length, and the scratch buffers live on.  *)
(***************************************************************************)

\* Largest vector length and number of iterations (opt.iterations) explored
\* over several iterations.
MaxReuse == 2

MaxIterations == 2

\* The value drawn for every non-zero entry over several iterations.
ReuseValues == {2}

ReuseRaw == {0, 1}

InitReuse == \E n \in 0..MaxReuse : B_Init(n) \/ F_Init(n)

Basic_Iterate ==
    /\ iteration < MaxIterations
    /\ \E zq \in QueryFills, zr \in RefFills : \E q, r \in SparseDraws(len, ReuseValues) :
         \E reversed \in BOOLEAN : B_Setup(zq, q, zr, r, reversed)

Fine_Iterate ==
    /\ iteration < MaxIterations
    /\ \E q, r \in [0..(len - 1) -> ReuseRaw] : F_Setup(q, r)

NextReuse ==
    \/ Basic_Iterate
    \/ Basic_Functions
    \/ Fine_Iterate
    \/ Fine_Functions

SpecReuse == InitReuse /\ [][NextReuse]_vars

(***************************************************************************)
(* The linear merges of both programs, one iteration of the timing loop.   *)
(***************************************************************************)

InitMerge == \E n \in 0..MaxLen : B_Init(n) \/ F_Init(n)

NextMerge ==
    \/ iteration = 0 /\ Basic_Setup
    \/ Basic_SparseDenseInterleaved
    \/ Basic_DenseSparseInterleaved
    \/ iteration = 0 /\ Fine_Setup
    \/ Fine_SparseDenseInterleaved
    \/ Fine_DenseSparseInterleaved

SpecMerge == InitMerge /\ [][NextMerge]_vars

(***************************************************************************)
(* Properties of scaled_ranks.                                             *)
(***************************************************************************)

\* The raw value of position i, read off the arguments of the split form.
RawAt(i) ==
    LET hit == {e \in Range(negative) \cup Range(positive) : e[2] = i}
    IN IF hit = {} THEN 0 ELSE (CHOOSE e \in hit : TRUE)[1]

\* The scores the single-collection form delivered for position i.
SingleScores(i) == {c[2] : c \in {d \in Range(out_single.calls) : d[1] = i}}

\* The scores of position i under a (zero score, sparse list) pair.
SparseScores(zero, list, i) ==
    LET hit == {e \in Range(list) : e[1] = i}
    IN IF hit = {} THEN {zero} ELSE {e[2] : e \in hit}

\* The sparse list the callback form hands out: entry k with the score of
\* the process call for k.
DeliveredList(r) ==
    LET pc == ProcessCalls(r.events)
    IN [j \in 1..Len(pc) |-> <<r.buffer[pc[j][2]][1], pc[j][3]>>]

ReturnedScores(i) == SparseScores(out_returning.output, out_returning.buffer, i)

DeliveredScores(i) == SparseScores(ZeroOf(out_split.events), DeliveredList(out_split), i)

Positions == 0..(num_markers - 1)

\* C4: position by position, the score the single-collection form delivers
\* equals the split form's sparse score if the position is listed and the
\* reported zero score otherwise (for the returning overload and for the
\* callback overload).
C4_SplitEquivalentToSingle ==
    /\ (out_single # NoCall /\ out_returning # NoCall) =>
        \A i \in Positions :
            /\ SingleScores(i) # {}
            /\ \A x \in SingleScores(i) : \A y \in ReturnedScores(i) : ScoreEq(x, y)
    /\ (out_single # NoCall /\ out_split # NoCall) =>
        \A i \in Positions :
            \A x \in SingleScores(i) : \A y \in DeliveredScores(i) : ScoreEq(x, y)

\* A non-degenerate vector with negative, zero and positive entries went
\* through both forms.
C4_Witness ==
    /\ out_single # NoCall /\ out_returning # NoCall /\ out_split # NoCall
    /\ Len(negative) >= 2 /\ Len(positive) >= 1
    /\ Len(negative) + Len(positive) < num_markers
    /\ out_returning.buffer # <<>>
    /\ \E i, j \in Positions : ~ScoreEq(CHOOSE x \in SingleScores(i) : TRUE,
                                         CHOOSE x \in SingleScores(j) : TRUE)

RECURSIVE SumRanks(_, _)
\* Sum of the mean ranks of the entries k.. of a list of <<position, mean_rank>>.
SumRanks(ranked, k) ==
    IF k > Len(ranked) THEN 0 ELSE ranked[k][2].n + SumRanks(ranked, k + 1)

\* C5: for N >= 1 the centered mean ranks sum to zero over all N positions
\* (split form: the listed entries plus num_zero times the zero rank), and
\* the rank counter ends at N.
C5_RanksCentered ==
    num_markers >= 1 =>
        /\ out_single # NoCall =>
            /\ SumRanks(out_single.ranked, 1) = 0
            /\ out_single.cur_rank = num_markers
        /\ out_split # NoCall =>
            /\ SumRanks(out_split.ranked, 1)
                   + out_split.num_zero * out_split.zero_rank = 0
            /\ out_split.cur_rank = num_markers

\* Both forms ranked a vector with a tied negative run, zeros and positives.
C5_Witness ==
    /\ out_single # NoCall /\ out_split # NoCall
    /\ num_markers >= 4
    /\ \E a, b \in 1..Len(negative) : a # b /\ negative[a][1] = negative[b][1]
    /\ out_split.num_zero >= 1 /\ Len(positive) >= 1
    /\ out_split.zero_rank # 0

\* The order part of C6 for one total position -> scores mapping.
OrderConsistent(raw(_), scores(_)) ==
    \A i, j \in Positions : \A x \in scores(i) : \A y \in scores(j) :
        /\ raw(i) = raw(j) => ScoreEq(x, y)
        /\ raw(i) < raw(j) => ~ScoreLess(y, x)

CollectedRaw(i) == (CHOOSE e \in Range(collected) : e[2] = i)[1]

\* C6 as amended: equal raw values get equal scores and a smaller raw value
\* never gets a larger score; in the non-degenerate split form with
\* num_zero > 0 every negative entry's score is strictly below the zero
\* score and every positive entry's score strictly above it.
C6_OrderConsistent ==
    /\ out_single # NoCall => OrderConsistent(CollectedRaw, SingleScores)
    /\ out_returning # NoCall =>
        /\ OrderConsistent(RawAt, ReturnedScores)
        /\ (out_returning.buffer # <<>>
                /\ Len(negative) + Len(positive) < num_markers) =>
            \A e \in Range(out_returning.buffer) :
                /\ RawAt(e[1]) < 0 => ScoreLess(e[2], out_returning.output)
                /\ RawAt(e[1]) > 0 => ScoreLess(out_returning.output, e[2])

\* C6 as stated: the positive entries are strictly above the zero score also
\* when num_zero = 0.
C6_AsStated ==
    /\ C6_OrderConsistent
    /\ (out_returning # NoCall /\ out_returning.buffer # <<>>) =>
        \A e \in Range(out_returning.buffer) :
            RawAt(e[1]) > 0 => ScoreLess(out_returning.output, e[2])

\* A non-degenerate split call with ties, zeros, negatives and positives.
C6_Witness ==
    /\ out_single # NoCall /\ out_returning # NoCall
    /\ out_returning.buffer # <<>>
    /\ Len(negative) + Len(positive) < num_markers
    /\ Len(negative) >= 1
    /\ \E a, b \in 1..Len(positive) : a # b /\ positive[a][1] = positive[b][1]

AllIdentical == \A a, b \in Range(collected) : a[1] = b[1]

\* C7: if all N >= 1 raw values are identical then sum_squares is 0, the
\* single-collection form delivers (i, 0) for every position and the split
\* form reports zero score 0 with an empty list; and sum_squares is 0 only
\* when all values are identical.
C7_Degenerate ==
    num_markers >= 1 =>
        /\ out_single # NoCall =>
            /\ (out_single.sum_squares = 0) <=> AllIdentical
            /\ AllIdentical =>
                out_single.calls = [k \in 1..num_markers |-> <<k - 1, ZeroScore>>]
        /\ out_split # NoCall =>
            /\ (out_split.sum_squares = 0) <=> AllIdentical
            /\ AllIdentical =>
                /\ out_split.events = <<<<"zero", ZeroScore>>>>
                /\ out_split.buffer = <<>>
        /\ (out_returning # NoCall /\ AllIdentical) =>
                /\ out_returning.output = ZeroScore
                /\ out_returning.buffer = <<>>

\* Every form was called on several copies of one negative value.
C7_Witness ==
    /\ num_markers >= 3 /\ AllIdentical
    /\ Len(negative) = num_markers
    /\ out_single # NoCall /\ out_split # NoCall /\ out_returning # NoCall

\* C9: with N = 0 the single-collection form calls no consumer; the split
\* form empties the output list, reports zero score 0 once and calls no
\* per-entry consumer, whatever the list held before.
C9_Empty ==
    num_markers = 0 =>
        /\ out_single # NoCall => out_single.calls = <<>>
        /\ out_split # NoCall =>
            /\ out_split.events = <<<<"zero", ZeroScore>>>>
            /\ tmp = <<>>
        /\ out_returning # NoCall =>
            /\ out_returning.output = ZeroScore
            /\ tmp = <<>>

\* The split form was called with N = 0 on a list that was not empty.
C9_Witness ==
    /\ num_markers = 0
    /\ out_single # NoCall
    /\ out_split # NoCall /\ out_split.stale

\* C8: a call on invalid arguments ends with an invalid-argument outcome and
\* delivers no score.
C8_FailsFast ==
    InvalidArguments =>
        /\ out_single # NoCall =>
            /\ out_single.outcome = "invalid_argument"
            /\ out_single.calls = <<>>
        /\ out_split # NoCall =>
            /\ out_split.outcome = "invalid_argument"
            /\ out_split.events = <<>>
        /\ out_returning # NoCall =>
            out_returning.outcome = "invalid_argument"

\* Sum of the quadratic values f[x] over the finite set S.
RECURSIVE QuadSum(_, _)
QuadSum(f, S) ==
    IF S = {} THEN QuadZero
    ELSE With(CHOOSE y \in S : TRUE, LAMBDA x : QuadAdd(f[x], QuadSum(f, S \ {x})))

\* The centered rank the rank loop assigned to position i.
RankOf(ranked, i) == (CHOOSE e \in Range(ranked) : e[1] = i)[2]

\* The score of position i from the rank the rank loop assigned to it,
\* whatever the array holds by the time of the delivery.
ScoreOf(r, i) ==
    IF r.sum_squares = 0 THEN ZeroScore ELSE Scale(RankOf(r.ranked, i), r.sum_squares)

\* C11: with N >= 1 the single-collection form calls its consumer exactly
\* once per position, for positions 0, 1, ..., N-1 in increasing order, on
\* the degenerate and on the normal branch, and every delivered score is the
\* scaled rank of its position whether or not the consumer writes its score
\* into the array the transform reads.
C11_OncePerPosition ==
    (num_markers >= 1 /\ out_single # NoCall) =>
        /\ Len(out_single.calls) = num_markers
        /\ \A k \in 1..num_markers :
               out_single.calls[k] = <<k - 1, ScoreOf(out_single, k - 1)>>

\* A call on the normal branch with a storing consumer: the array now holds
\* the scores, which differ from the ranks it held during the rank loop.
C11_Witness ==
    /\ num_markers >= 3
    /\ out_single # NoCall /\ out_single.stores
    /\ out_single.sum_squares # 0
    /\ \A i \in Positions : buffer[i] = out_single.calls[i + 1][2]
    /\ \E i \in Positions : buffer[i] # RankOf(out_single.ranked, i)
    /\ \E i, j \in Positions : buffer[i] # buffer[j] /\ buffer[i] # ZeroScore

\* A call on the degenerate branch with a storing consumer.
C11_DegenerateStored ==
    /\ num_markers >= 2
    /\ out_single # NoCall /\ out_single.stores
    /\ out_single.sum_squares = 0
    /\ \A i \in Positions : buffer[i] = ZeroScore

\* The doubled centered rank of position i at the end of the rank loops of
\* the split form: that of its entry, or zero_rank when it has none.
SplitRankOf(r, i) ==
    IF \E e \in Range(r.ranked) : e[1] = i THEN RankOf(r.ranked, i).n ELSE r.zero_rank

\* The squared scores of a (zero score, sparse list) pair summed over all
\* N positions, in canonical form.
SumSquaredScores(zero, list) ==
    Canon(QuadSum([i \in Positions |->
                      SqDiff(CHOOSE x \in SparseScores(zero, list, i) : TRUE, ZeroScore)],
                  Positions))

\* C12: after the split form with N >= 1 the output list is empty exactly
\* when sum_squares is 0, which is when all N values are identical;
\* otherwise the squared centered ranks summed position by position equal
\* sum_squares and the squared scores over all N positions sum to 0.25.  In
\* both cases the sum of the squared scores is the x2 that
\* any-sparse-unstable takes for such a list.
C12_SumOfSquares ==
    num_markers >= 1 =>
        /\ out_split # NoCall =>
            /\ (out_split.buffer = <<>>) <=> (out_split.sum_squares = 0)
            /\ (out_split.sum_squares = 0) <=> AllIdentical
            /\ out_split.sum_squares # 0 =>
                /\ SumOver([i \in Positions |->
                               SplitRankOf(out_split, i) * SplitRankOf(out_split, i)],
                           Positions) = out_split.sum_squares
                /\ SumSquaredScores(ZeroOf(out_split.events), DeliveredList(out_split))
                       = Canon(Quarter)
            /\ SumSquaredScores(ZeroOf(out_split.events), DeliveredList(out_split))
                   = Canon(X2(out_split.buffer))
        /\ out_returning # NoCall =>
            /\ (out_returning.buffer = <<>>) <=> AllIdentical
            /\ SumSquaredScores(out_returning.output, out_returning.buffer)
                   = Canon(X2(out_returning.buffer))

\* Both overloads were called on a vector with tied negative values, zeros
\* and a positive value.
C12_Witness ==
    /\ num_markers >= 4
    /\ out_split # NoCall /\ out_returning # NoCall
    /\ out_split.sum_squares # 0 /\ out_split.num_zero >= 1
    /\ Len(negative) >= 2 /\ negative[1][1] = negative[2][1]
    /\ positive # <<>>
    /\ out_returning.buffer # <<>>

\* The indices of the zero-score calls among the consumer calls.
ZeroCalls(events) == {k \in 1..Len(events) : events[k][1] = "zero"}

\* C13: on every path the callback overload of the split form calls the
\* zero-score consumer exactly once, before any per-entry call.  On the
\* normal path it then calls the per-entry consumer once for each entry of
\* negative, in their order, and then once for each entry of positive, in
\* their order; with N = 0 or sum_squares = 0 it calls no per-entry consumer
\* and leaves the output list empty.
C13_CallbackOrder ==
    out_split # NoCall =>
        /\ ZeroCalls(out_split.events) = {1}
        /\ IF num_markers # 0 /\ out_split.sum_squares # 0
           THEN LET pc == ProcessCalls(out_split.events)
                    given == negative \o positive
                IN /\ Len(pc) = Len(given)
                   /\ Len(out_split.buffer) = Len(given)
                   /\ \A j \in 1..Len(pc) :
                          /\ pc[j][2] = j
                          /\ out_split.buffer[j][1] = given[j][2]
           ELSE /\ ProcessCalls(out_split.events) = <<>>
                /\ out_split.buffer = <<>>

\* The normal path on a list that held a stale entry, with tied negative
\* values and a positive value.
C13_Witness ==
    /\ out_split # NoCall /\ out_split.stale
    /\ out_split.sum_squares # 0
    /\ Len(negative) >= 2 /\ negative[1][1] = negative[2][1]
    /\ positive # <<>>
    /\ Len(ProcessCalls(out_split.events)) >= 3

\* The degenerate path on a list that held a stale entry, with entries to
\* rank.
C13_DegeneratePath ==
    /\ out_split # NoCall /\ out_split.stale
    /\ num_markers >= 2 /\ out_split.sum_squares = 0
    /\ out_split.ranked # <<>>

\* The path for N = 0 on a list that held a stale entry.
C13_EmptyPath ==
    /\ out_split # NoCall /\ out_split.stale
    /\ num_markers = 0

(***************************************************************************)
(* Properties of the distance functions of basic.cpp.                      *)
(***************************************************************************)

\* The vector a sparse list and a fill value stand for, at position i.
Densify(sparse, zero, i) ==
    IF \E e \in Range(sparse) : e[1] = i
    THEN (CHOOSE e \in Range(sparse) : e[1] = i)[2]
    ELSE zero

\* The dense/dense sum over i in [0, N) of (Q[i] - R[i])^2, from the inputs.
Baseline ==
    SumOver([i \in 0..(len - 1) |->
                (Densify(sparse_query, zero_query, i) - Densify(sparse_ref, zero_ref, i))
                * (Densify(sparse_query, zero_query, i) - Densify(sparse_ref, zero_ref, i))],
            0..(len - 1))

\* The positions present in neither sparse list.
InNeither ==
    {i \in 0..(len - 1) :
        \A e \in Range(sparse_query) \cup Range(sparse_ref) : e[1] # i}

\* C1: sparse-sparse-interleaved returns the dense/dense sum of the vectors
\* its sparse lists and fill values stand for, and the factor of its
\* closed-form term is the number of positions in neither list, which is
\* never negative.
C1_SparseSparseMerge ==
    called = "sparse-sparse-interleaved" =>
        /\ res = Baseline
        /\ detail[2] = Cardinality(InNeither)
        /\ detail[2] >= 0

\* A merge with a matched entry, an unmatched one, a position in neither
\* list, different fill values and a shuffled reference.
C1_Witness ==
    /\ called = "sparse-sparse-interleaved"
    /\ detail[1] >= 1
    /\ Len(sparse_ref) > detail[1]
    /\ detail[2] >= 1
    /\ zero_query # zero_ref
    /\ sparse_ref # sparse_ref_ss

\* The sparse list the last linear merge of basic.cpp walked.
MergedList ==
    IF called = "sparse-dense-interleaved" THEN sparse_query ELSE sparse_ref_sd

\* The reads of a linear merge, each <<dense index, sparse entry used or 0>>,
\* visit every index in [0, N) exactly once and none outside, and use a
\* sparse entry only against the dense element at that entry's position.
VisitsEachOnce(reads, sparse) ==
    /\ \A i \in 0..(len - 1) :
           Cardinality({k \in DOMAIN reads : reads[k][1] = i}) = 1
    /\ \A k \in DOMAIN reads :
           /\ reads[k][1] \in 0..(len - 1)
           /\ reads[k][2] # 0 => sparse[reads[k][2]][1] = reads[k][1]

\* A dense/sparse merge over a shuffled reference of two or more entries
\* with fill reads before, between or after them.
C2_Witness ==
    /\ called = "dense-sparse-interleaved"
    /\ Len(sparse_ref) >= 2
    /\ sparse_ref # sparse_ref_sd
    /\ \E k \in DOMAIN detail : detail[k][2] = 0
    /\ \E k \in DOMAIN detail : detail[k][2] = 2

\* ss_mapping as setup leaves it: the query's value at each position of
\* its sparse list and the mark of an unused slot everywhere else.
QueryMapping == [i \in 0..(len - 1) |-> Densify(sparse_query, Empty, i)]

\* C14: sparse-sparse-remapped returns the dense/dense baseline for a
\* reference list in any order, and ss_mapping is as setup left it whenever
\* the timing loop is between two functions, so every call, a repeated one
\* included, starts from that mapping and ends with it.
C14_RemappedRestores ==
    (program = "basic" /\ iteration > 0) =>
        /\ ss_mapping = QueryMapping
        /\ called = "sparse-sparse-remapped" => res = Baseline

\* A call on a shuffled reference with a matched position, a position in
\* the query alone and one in the reference alone, after another function
\* has set the value to compare with.
C14_Witness ==
    /\ program = "basic" /\ called = "sparse-sparse-remapped"
    /\ detail[1] >= 1
    /\ Len(sparse_query) > detail[1]
    /\ Len(sparse_ref) > detail[1]
    /\ \E k \in 1..(Len(sparse_ref) - 1) : sparse_ref[k][1] > sparse_ref[k + 1][1]
    /\ zero_query # zero_ref
    /\ result # <<>> /\ ~oops

(***************************************************************************)
(* Properties of the distance functions of fine_tune.cpp.                  *)
(***************************************************************************)

\* The reference as the split-form transform gives it: the zero score and
\* the list of <<position, score>>.
RefScores == ScaledRanksReturning(len, negative_ref, positive_ref, <<>>)

\* The dense/dense sum over i in [0, N) of (Q[i] - R[i])^2 for the query and
\* the reference scores, in canonical form.
FineBaseline ==
    With(RefScores, LAMBDA ref :
        Canon(QuadSum([i \in 0..(len - 1) |->
                          SqDiff(Densify(sparse_query, zero_query, i),
                                 Densify(ref.buffer, ref.output, i))],
                      0..(len - 1))))

\* C3: any-sparse-unstable returns the dense/dense baseline of the query and
\* reference scores, in exact arithmetic.
C3_ClosedForm ==
    (program = "fine_tune" /\ called = "any-sparse-unstable") => res = FineBaseline

\* The closed form on a query with scores and a reference with negative,
\* zero and positive positions, at a distance other than 0.
C3_Witness ==
    /\ program = "fine_tune" /\ called = "any-sparse-unstable"
    /\ sparse_query # <<>>
    /\ negative_ref # <<>> /\ positive_ref # <<>>
    /\ Len(negative_ref) + Len(positive_ref) < len
    /\ res # Canon(QuadZero)

\* The closed form on a degenerate query, whose x2 is 0.
C3_DegenerateQuery ==
    /\ program = "fine_tune" /\ called = "any-sparse-unstable"
    /\ len > 1 /\ sparse_query = <<>>
    /\ RefScores.buffer # <<>>

\* The closed form on a degenerate reference.
C3_DegenerateRef ==
    /\ program = "fine_tune" /\ called = "any-sparse-unstable"
    /\ sparse_query # <<>>
    /\ negative_ref # <<>> /\ RefScores.buffer = <<>>

\* The closed form on a reference with no zero positions.
C3_NoZeroRef ==
    /\ program = "fine_tune" /\ called = "any-sparse-unstable"
    /\ sparse_query # <<>>
    /\ Len(RefScores.buffer) = len /\ len > 1

\* C2: the linear merges (sparse-dense-interleaved and
\* dense-sparse-interleaved, in basic.cpp and in fine_tune.cpp) return the
\* dense/dense baseline; they visit every index in [0, N) exactly once and
\* none outside, and use a sparse value only against the dense element at
\* that entry's position.
C2_LinearMerge ==
    called \in {"sparse-dense-interleaved", "dense-sparse-interleaved"} =>
        /\ program = "basic" =>
               res = Baseline /\ VisitsEachOnce(detail, MergedList)
        /\ program = "fine_tune" =>
               res = FineBaseline /\ VisitsEachOnce(detail[1], detail[2])

\* A dense/sparse merge in fine_tune.cpp over two or more reference scores
\* that the transform emits out of position order, with a fill read.
C2_WitnessFine ==
    /\ program = "fine_tune" /\ called = "dense-sparse-interleaved"
    /\ Len(detail[2]) >= 2
    /\ detail[2] # RefScores.buffer
    /\ \E k \in DOMAIN detail[1] : detail[1][k][2] = 0

(***************************************************************************)
(* Properties over several iterations.                                     *)
(***************************************************************************)

\* C10: the scratch buffer of dense-sparse-densified2 (sd_mapping in
\* basic.cpp, dsd2_mapping in fine_tune.cpp) is all-zero whenever the timing
\* loop is between two functions, in every iteration, and each call returns
\* the dense/dense baseline of its own iteration's vectors.
C10_ScratchReset ==
    /\ program = "basic" =>
        /\ sd_mapping = Zeros(len)
        /\ called = "dense-sparse-densified2" => res = Baseline
    /\ program = "fine_tune" =>
        /\ \A i \in 0..(len - 1) : dsd2_mapping[i] = LinZero
        /\ called = "dense-sparse-densified2" => res = FineBaseline

\* A call in a later iteration on a reference that touches some positions
\* and leaves others alone.
C10_Witness ==
    /\ program = "fine_tune" /\ called = "dense-sparse-densified2"
    /\ iteration >= 2
    /\ RefScores.buffer # <<>> /\ Len(RefScores.buffer) < len

\* A call in a later iteration on a degenerate reference, whose list is
\* cleared.
C10_DegenerateRef ==
    /\ program = "fine_tune" /\ called = "dense-sparse-densified2"
    /\ iteration >= 2
    /\ positive_ref # <<>> /\ RefScores.buffer = <<>>

====
